---- MODULE Spec2Model ----
(***************************************************************************)
(* A model of the freee MCP server: compilation of an OpenAPI document     *)
(* into tools (generateToolsFromOpenApi), the derivation of tool names     *)
(* (convertPathToToolName), parameter-name sanitising, and the dispatch of *)
(* one tool invocation to the HTTP backend (the tool handler and           *)
(* makeApiRequest).                                                        *)
(*                                                                         *)
(* Strings the program computes on are sequences of one-character strings, *)
(* so that the regular-expression replacements, the hash and the           *)
(* substitutions are computed character by character as the code does.     *)
(*                                                                         *)
(* The document is drawn from a pool of path templates; the environment    *)
(* from the values the code tells apart (a variable that is unset or empty *)
(* is falsy).  What lies outside the repository is nondeterministic: a     *)
(* duplicate registration either throws or replaces, fetch either rejects  *)
(* or resolves with one of a few responses.                                *)
(*                                                                         *)
(* Invocations are followed one at a time.  The handler and makeApiRequest *)
(* keep everything in locals and only read process.env and the registered  *)
(* tools, so invocations in flight together do not affect one another.     *)
(***************************************************************************)
EXTENDS Integers, Sequences, FiniteSets, TLC

\* ---------------------------------------------------------------- text

Lower == <<"a","b","c","d","e","f","g","h","i","j","k","l","m",
           "n","o","p","q","r","s","t","u","v","w","x","y","z">>

Digits == <<"0","1","2","3","4","5","6","7","8","9">>

HexDigits == <<"0","1","2","3","4","5","6","7","8","9","a","b","c","d","e","f">>

IndexIn(c, s) == CHOOSE i \in 1..Len(s) : s[i] = c

InSeq(c, s) == \E i \in 1..Len(s) : s[i] = c

IsDigit(c) == InSeq(c, Digits)

\* String.prototype.charCodeAt for the characters the model uses.
CharCode(c) ==
  IF InSeq(c, Lower) THEN 96 + IndexIn(c, Lower)
  ELSE IF InSeq(c, Digits) THEN 47 + IndexIn(c, Digits)
  ELSE CASE c = "/" -> 47
         [] c = "_" -> 95
         [] c = "{" -> 123
         [] c = "}" -> 125
         [] c = " " -> 32
         [] c = "-" -> 45
         [] c = "." -> 46
         [] c = "[" -> 91
         [] c = "]" -> 93

\* The first n characters: s.substring(0, n).
Take(s, n) == SubSeq(s, 1, IF Len(s) < n THEN Len(s) ELSE n)

\* The characters from position i on: s.substring(i - 1) in the code's indexing.
Drop(s, i) == SubSeq(s, i, Len(s))

StartsWith(s, p) == Len(s) >= Len(p) /\ SubSeq(s, 1, Len(p)) = p

\* Whether p occurs in s at position i.
OccursAt(s, p, i) == i + Len(p) - 1 <= Len(s) /\ SubSeq(s, i, i + Len(p) - 1) = p

Contains(s, p) == \E i \in 1..Len(s) : OccursAt(s, p, i)

\* Number.prototype.toString(10) of a natural number: String(n).
RECURSIVE ToDecimal(_)
ToDecimal(n) ==
  IF n < 10 THEN <<Digits[n + 1]>>
  ELSE ToDecimal(n \div 10) \o <<Digits[(n % 10) + 1]>>

\* ------------------------------------------------- 32-bit arithmetic
\* A 32-bit word is kept as two 16-bit halves: the hash runs over the whole
\* 32-bit range and its products must not leave TLC's integers.

Half == 256 * 256

Word(hi, lo) == [hi |-> hi, lo |-> lo]

\* x << 5 on a 32-bit word.
Shl5(w) ==
  LET l == w.lo * 32
  IN  Word((w.hi * 32 + l \div Half) % Half, l % Half)

\* a - b wrapped to 32 bits.
Sub32(a, b) ==
  LET l == a.lo - b.lo
      borrow == IF l < 0 THEN 1 ELSE 0
  IN  Word((a.hi - b.hi - borrow) % Half, l % Half)

\* a + n wrapped to 32 bits, for a small natural n (a character code).
AddSmall32(a, n) ==
  LET l == a.lo + n
  IN  Word((a.hi + l \div Half) % Half, l % Half)

\* The word read as a signed 32-bit integer is negative.
IsNegative32(w) == w.hi >= Half \div 2

\* Math.abs of the signed 32-bit integer, as an unsigned word (2^31 included).
Abs32(w) == IF IsNegative32(w) THEN Sub32(Word(0, 0), w) ELSE w

RECURSIVE HexOf(_)
HexOf(n) ==
  IF n < 16 THEN <<HexDigits[n + 1]>>
  ELSE HexOf(n \div 16) \o <<HexDigits[(n % 16) + 1]>>

\* The low half written with exactly four hexadecimal digits.
Hex4(n) ==
  <<HexDigits[(n \div 4096) + 1], HexDigits[((n \div 256) % 16) + 1],
    HexDigits[((n \div 16) % 16) + 1], HexDigits[(n % 16) + 1]>>

\* Number.prototype.toString(16) of an unsigned word.
ToHex(w) == IF w.hi = 0 THEN HexOf(w.lo) ELSE HexOf(w.hi) \o Hex4(w.lo)

\* ------------------------------------------------------- Name Resolver

ApiPrefix == <<"/","a","p","i","/">>

\* The end of the longest run of digits of p that starts at position i
\* (i - 1 when p[i] is no digit).
RECURSIVE DigitRunEnd(_, _)
DigitRunEnd(p, i) ==
  IF i <= Len(p) /\ IsDigit(p[i]) THEN DigitRunEnd(p, i + 1) ELSE i - 1

\* path.replace(/^\/api\/\d+\//, '')
StripApiVersion(p) ==
  IF ~StartsWith(p, ApiPrefix) THEN p
  ELSE LET k == DigitRunEnd(p, Len(ApiPrefix) + 1)
       IN  IF k >= Len(ApiPrefix) + 1 /\ k + 1 <= Len(p) /\ p[k + 1] = "/"
           THEN Drop(p, k + 2)
           ELSE p

\* The position of the first "}" of p at or after i, 0 when there is none.
RECURSIVE FirstClose(_, _)
FirstClose(p, i) ==
  IF i > Len(p) THEN 0
  ELSE IF p[i] = "}" THEN i ELSE FirstClose(p, i + 1)

ById == <<"_","b","y","_","i","d">>

\* .replace(/\/{[^}]+}/g, '_by_id') from position i on.
RECURSIVE ReplacePlaceholdersFrom(_, _)
ReplacePlaceholdersFrom(p, i) ==
  IF i > Len(p) THEN <<>>
  ELSE LET j == FirstClose(p, i + 2)
       IN  IF p[i] = "/" /\ i + 1 <= Len(p) /\ p[i + 1] = "{" /\ j > i + 2
           THEN ById \o ReplacePlaceholdersFrom(p, j + 1)
           ELSE <<p[i]>> \o ReplacePlaceholdersFrom(p, i + 1)

\* .replace(/\//g, '_')
ReplaceSlashes(p) == [i \in 1..Len(p) |-> IF p[i] = "/" THEN "_" ELSE p[i]]

baseName(path) ==
  ReplaceSlashes(ReplacePlaceholdersFrom(StripApiVersion(path), 1))

Word32 == [hi : 0..(Half - 1), lo : 0..(Half - 1)]

\* One round of the loop: hash = (hash << 5) - hash + char; hash = hash & hash.
HashStep[hash \in Word32, char \in Nat] ==
  AddSmall32(Sub32(Shl5(hash), hash), char)

\* The hash after the first n characters of s.
RECURSIVE HashUpTo(_, _)
HashUpTo(s, n) ==
  IF n = 0 THEN Word(0, 0) ELSE HashStep[HashUpTo(s, n - 1), CharCode(s[n])]

HashWidth == 10

convertPathToToolName(path) ==
  LET b == baseName(path)
  IN  Take(ToHex(Abs32(HashUpTo(b, Len(b)))), HashWidth)

\* ------------------------------------------------------- JavaScript values

Undefined == [t |-> "undefined"]

Null == [t |-> "null"]

Num(n) == [t |-> "number", n |-> n]

Str(chars) == [t |-> "string", s |-> chars]

\* A parsed JSON object or array, kept by its compact JSON text.
Json(text) == [t |-> "object", json |-> text]

\* String(value), for the values the model passes (numbers are naturals).
String(v) ==
  CASE v.t = "undefined" -> <<"u","n","d","e","f","i","n","e","d">>
    [] v.t = "null" -> <<"n","u","l","l">>
    [] v.t = "number" -> ToDecimal(v.n)
    [] v.t = "string" -> v.s
    [] v.t = "object" -> <<"[","o","b","j","e","c","t"," ","o","b","j","e","c","t","]">>

\* ------------------------------------------------- Parameter Schema Builder

MaxNameLength == 64

IsSafeChar(c) ==
  InSeq(c, Lower) \/ InSeq(c, Digits) \/ c = "_" \/ c = "." \/ c = "-"

sanitizeParameterName(name) ==
  Take([i \in 1..Len(name) |-> IF IsSafeChar(name[i]) THEN name[i] ELSE "_"],
       MaxNameLength)

\* A zod schema: the primitive it checks and whether undefined passes.
Validator(kind, optional) == [kind |-> kind, optional |-> optional]

convertParameterToZodSchema(parameter) ==
  Validator(CASE parameter.type = "string" -> "string"
              [] parameter.type = "integer" -> "int"
              [] parameter.type = "number" -> "number"
              [] parameter.type = "boolean" -> "boolean"
              [] OTHER -> "any",
            ~parameter.required)

\* schema.optional()
Optional(schema) == Validator(schema.kind, TRUE)

\* Whether the zod schema lets the value through (z.any() lets everything
\* through, undefined included).
Accepts(schema, v) ==
  \/ schema.kind = "any"
  \/ v = Undefined /\ schema.optional
  \/ schema.kind = "string" /\ v.t = "string"
  \/ schema.kind \in {"int", "number"} /\ v.t = "number"
  \/ schema.kind = "boolean" /\ v.t = "boolean"

CompanyIdName == <<"c","o","m","p","a","n","y","_","i","d">>

BodyName == <<"b","o","d","y">>

\* The parameters of a list that are located in `in`, in order: the two
\* filters on p.in.
RECURSIVE Filter(_, _)
Filter(seq, in) ==
  IF seq = <<>> THEN <<>>
  ELSE (IF Head(seq).in = in THEN <<Head(seq)>> ELSE <<>>) \o Filter(Tail(seq), in)

Parameters(operation, in) == Filter(operation.parameters, in)

\* The validator of one parameter: company_id in the query is made optional.
ParameterValidator(param) ==
  IF param.in = "query" /\ param.name = CompanyIdName
  THEN Optional(convertParameterToZodSchema(param))
  ELSE convertParameterToZodSchema(param)

\* parameterSchema after the first n assignments of the two loops, the path
\* parameters' and then the query parameters': a later parameter with the
\* same safe name overwrites an earlier one.
RECURSIVE Schemas(_, _)
Schemas(params, n) ==
  IF n = 0 THEN <<>>
  ELSE LET rest == Schemas(params, n - 1)
           safeName == sanitizeParameterName(params[n].name)
       IN  [k \in DOMAIN rest \cup {safeName} |->
              IF k = safeName THEN ParameterValidator(params[n]) ELSE rest[k]]

Post == <<"p","o","s","t">>

Put == <<"p","u","t">>

CarriesBody(method) == method = Post \/ method = Put

\* Whether the body slot is added to parameterSchema.
HasBodySlot(method, operation) == CarriesBody(method) /\ operation.jsonBody

parameterSchema(method, operation) ==
  LET pathParams == Parameters(operation, "path")
      queryParams == Parameters(operation, "query")
      plain == Schemas(pathParams \o queryParams,
                       Len(pathParams) + Len(queryParams))
  IN  IF HasBodySlot(method, operation)
      THEN [k \in DOMAIN plain \cup {BodyName} |->
              IF k = BodyName THEN Validator("any", TRUE) ELSE plain[k]]
      ELSE plain

\* ------------------------------------------------------- API documents

Get == <<"g","e","t">>

Delete == <<"d","e","l","e","t","e">>

Patch == <<"p","a","t","c","h">>

\* The keys OpenAPIPathItem declares.
PathItemKeys == {Get, Post, Put, Delete, Patch}

Param(name, in, type, required) ==
  [name |-> name, in |-> in, type |-> type, required |-> required]

Operation(parameters, jsonBody) ==
  [parameters |-> parameters, jsonBody |-> jsonBody]

PathD == <<"/","a","p","i","/","1","/","d">>

PathDId == <<"/","a","p","i","/","1","/","d","/","{","i","d","}">>

PathDK == <<"/","a","p","i","/","1","/","d","/","{","k","}">>

PathT == <<"/","t","/","{","i","}","/","{","i","}">>

PathW == <<"/","w","/","{","a"," ","b","}">>

\* The path templates documents are drawn from.
PathPool == {PathD, PathDId, PathDK, PathT, PathW}

\* The Path Item of each template: its (method, operation) entries in the
\* document's key order.
PathItemOf(pathKey) ==
  CASE pathKey = PathD ->
         << <<Get, Operation(<<Param(CompanyIdName, "query", "integer", TRUE),
                                Param(<<"q","[","]">>, "query", "string", FALSE)>>,
                             FALSE)>>,
            <<Post, Operation(<<>>, TRUE)>> >>
    [] pathKey = PathDId ->
         << <<Get, Operation(<<Param(<<"i","d">>, "path", "integer", TRUE)>>, FALSE)>>,
            <<Put, Operation(<<Param(<<"i","d">>, "path", "integer", TRUE)>>, TRUE)>>,
            <<Delete, Operation(<<Param(<<"i","d">>, "path", "integer", TRUE)>>, FALSE)>> >>
    [] pathKey = PathDK ->
         << <<Get, Operation(<<Param(<<"k">>, "path", "string", FALSE)>>, FALSE)>> >>
    [] pathKey = PathT ->
         << <<Get, Operation(<<Param(<<"i">>, "path", "integer", TRUE),
                                Param(<<"q">>, "query", "", FALSE)>>, FALSE)>>,
            <<Post, Operation(<<Param(<<"i">>, "path", "integer", TRUE)>>, FALSE)>> >>
    [] pathKey = PathW ->
         << <<Patch, Operation(<<Param(<<"a"," ","b">>, "path", "string", TRUE)>>, TRUE)>> >>

MaxPaths == 2

\* A document's templates in its own key order: at most MaxPaths distinct
\* templates of the pool.
Documents ==
  {l \in UNION {[1..k -> PathPool] : k \in 0..MaxPaths} :
     \A i, j \in 1..Len(l) : i # j => l[i] # l[j]}

\* a < b in the order Array.prototype.sort() uses by default, by code units:
\* at the first position where they differ a has ended or has the smaller code.
LexLess(a, b) ==
  \E k \in 1..Len(b) :
    /\ k <= Len(a) + 1
    /\ \A j \in 1..(k - 1) : a[j] = b[j]
    /\ \/ k = Len(a) + 1
       \/ CharCode(a[k]) < CharCode(b[k])

\* Insert key into a sorted list.
RECURSIVE InsertSorted(_, _)
InsertSorted(key, sorted) ==
  IF sorted = <<>> THEN <<key>>
  ELSE IF LexLess(key, Head(sorted)) THEN <<key>> \o sorted
  ELSE <<Head(sorted)>> \o InsertSorted(key, Tail(sorted))

\* The keys left in the document's own order.
Unsorted(keys) == keys

\* Object.keys(paths).sort()
RECURSIVE Sort(_)
Sort(keys) ==
  IF keys = <<>> THEN <<>> ELSE InsertSorted(Head(keys), Sort(Tail(keys)))

\* The order in which generateToolsFromOpenApi walks each document, worked
\* out once per document.
SortedDocuments == {[doc |-> d, keys |-> Sort(d)] : d \in Documents}

SortedKeys(d) == (CHOOSE s \in SortedDocuments : s.doc = d).keys

\* The (pathKey, entry) rounds of the two nested forEach loops over the
\* ordered keys, in order.
RECURSIVE Visits(_)
Visits(keys) ==
  IF keys = <<>> THEN <<>>
  ELSE [i \in 1..Len(PathItemOf(Head(keys))) |->
          [pathKey |-> Head(keys), entry |-> i]]
       \o Visits(Tail(keys))

Underscore == <<"_">>

toolName(method, pathKey) == method \o Underscore \o convertPathToToolName(pathKey)

\* What one loop round hands to server.tool: the name, the schema and the
\* values the handler closes over.
Tool(pathKey, method, operation) ==
  [name |-> toolName(method, pathKey),
   method |-> method,
   pathKey |-> pathKey,
   pathParams |-> Parameters(operation, "path"),
   queryParams |-> Parameters(operation, "query"),
   hasBody |-> HasBodySlot(method, operation),
   parameterSchema |-> parameterSchema(method, operation)]

\* The rounds of each Path Item of the pool.
Rounds ==
  UNION {{[pathKey |-> p, entry |-> i] : i \in 1..Len(PathItemOf(p))} :
           p \in PathPool}

\* The tool of every round, worked out once.
Tools ==
  {[round |-> r,
    tool |-> Tool(r.pathKey, PathItemOf(r.pathKey)[r.entry][1],
                  PathItemOf(r.pathKey)[r.entry][2])] : r \in Rounds}

ToolOf(round) == (CHOOSE c \in Tools : c.round = round).tool

\* ------------------------------------------------------------- JSON

EmptyObject == <<"{","}">>

OneArray == <<"[","1","]">>

\* The JSON texts the model's parser knows, each standing for its value.
JsonTexts == {EmptyObject, OneArray}

\* The whitespace JSON.parse skips around tokens.
IsJsonSpace(c) == c = " " \/ c = "\n" \/ c = "\t" \/ c = "\r"

\* s without its whitespace.
RECURSIVE Unspaced(_)
Unspaced(s) ==
  IF s = <<>> THEN <<>>
  ELSE (IF IsJsonSpace(Head(s)) THEN <<>> ELSE <<Head(s)>>) \o Unspaced(Tail(s))

\* response.json(): <<value>> when the text parses, <<>> when it rejects.
JsonParse(text) ==
  IF Unspaced(text) \in JsonTexts THEN <<Json(Unspaced(text))>> ELSE <<>>

\* JSON.stringify(v): <<text>>, or <<>> for undefined.
JsonStringify(v) ==
  CASE v.t = "undefined" -> <<>>
    [] v.t = "null" -> <<String(v)>>
    [] v.t = "number" -> <<ToDecimal(v.n)>>
    [] v.t = "string" -> <<(<<"\"">> \o v.s) \o <<"\"">> >>
    [] v.t = "object" -> <<v.json>>

\* JSON.stringify(v, null, 2) of a parsed response body.
JsonPretty(v) ==
  IF v.json = OneArray THEN <<"[","\n"," "," ","1","\n","]">> ELSE v.json

\* --------------------------------------------------------------- text pieces
\* A message is a sequence of pieces: a literal of the source, or characters
\* computed at run time.

Lit(s) == [lit |-> s, chars |-> <<>>]

Chars(c) == [lit |-> "", chars |-> c]

ErrorPrefix == Lit("Error: ")

\* ------------------------------------------------------- configuration

\* process.env: an unset variable and an empty one are both <<>> (the code
\* only tests them for falsiness).
Tokens == {<<>>, <<"t","o","k">>}

CompanyIds == {<<>>, <<"7">>}

BadUrl == <<"h","o","s","t">>

ApiUrls == {<<>>, BadUrl}

Environments == [token : Tokens, company : CompanyIds, url : ApiUrls]

DefaultBaseUrl ==
  <<"h","t","t","p","s",":","/","/","a","p","i",".","f","r","e","e","e",
    ".","c","o",".","j","p">>

\* Whether new URL(path, base) accepts the base: it has a scheme, letters
\* followed by a colon.
IsAbsoluteUrl(base) ==
  \E i \in 2..Len(base) :
    base[i] = ":" /\ \A j \in 1..(i - 1) : InSeq(base[j], Lower)

\* ----------------------------------------------------------- arguments

ArgumentValues == {Num(42), Str(<<"x">>), Json(EmptyObject), Null}

\* The argument objects a tool's input schema lets through to its handler:
\* only schema keys, each value accepted by its validator, each missing key
\* one whose validator accepts undefined.
AcceptedArguments(schema) ==
  UNION {{f \in [S -> ArgumentValues] : \A k \in S : Accepts(schema[k], f[k])} :
           S \in {T \in SUBSET DOMAIN schema :
                    \A k \in (DOMAIN schema) \ T : Accepts(schema[k], Undefined)}}

\* params[name]
Lookup(params, name) == IF name \in DOMAIN params THEN params[name] ELSE Undefined

\* ------------------------------------------------------- Request Dispatcher

Placeholder(name) == (<<"{">> \o name) \o <<"}">>

\* s.replace(pattern, replacement) with a string pattern: the first
\* occurrence only.  (No argument value of the model holds a "$".)
ReplaceFirst(s, pattern, replacement) ==
  LET hits == {i \in 1..Len(s) : OccursAt(s, pattern, i)}
  IN  IF hits = {} THEN s
      ELSE LET i == CHOOSE h \in hits : \A g \in hits : h <= g
           IN  (SubSeq(s, 1, i - 1) \o replacement) \o Drop(s, i + Len(pattern))

\* actualPath after the first n path parameters' replacements.
RECURSIVE actualPath(_, _, _, _)
actualPath(pathKey, pathParams, params, n) ==
  IF n = 0 THEN pathKey
  ELSE ReplaceFirst(actualPath(pathKey, pathParams, params, n - 1),
                    Placeholder(pathParams[n].name),
                    String(Lookup(params, pathParams[n].name)))

Entry(key, value) == [key |-> key, value |-> value]

\* obj[key] = value on an object kept as its entries in insertion order.
Assign(entries, key, value) ==
  IF \E i \in 1..Len(entries) : entries[i].key = key
  THEN [i \in 1..Len(entries) |->
          IF entries[i].key = key THEN Entry(key, value) ELSE entries[i]]
  ELSE Append(entries, Entry(key, value))

\* queryParameters after the first n query parameters.
RECURSIVE queryParameters(_, _, _)
queryParameters(queryParams, params, n) ==
  IF n = 0 THEN <<>>
  ELSE LET rest == queryParameters(queryParams, params, n - 1)
           name == queryParams[n].name
       IN  IF Lookup(params, name) # Undefined
           THEN Assign(rest, name, Lookup(params, name))
           ELSE rest

\* The entries url.searchParams holds after the loop over params.
RECURSIVE AppendParams(_)
AppendParams(entries) ==
  IF entries = <<>> THEN <<>>
  ELSE (IF Head(entries).value # Undefined
        THEN <<Entry(Head(entries).key, String(Head(entries).value))>>
        ELSE <<>>) \o AppendParams(Tail(entries))

\* String(process.env.FREEE_COMPANY_ID || 0)
companyId(env) == IF env.company # <<>> THEN env.company ELSE ToDecimal(0)

\* company_id appended only when one is configured.
searchParamsConfiguredOnly(entries, env) ==
  IF env.company # <<>>
  THEN Append(AppendParams(entries), Entry(CompanyIdName, env.company))
  ELSE AppendParams(entries)

searchParams(entries, env) ==
  Append(AppendParams(entries), Entry(CompanyIdName, companyId(env)))

baseUrl(env) == IF env.url # <<>> THEN env.url ELSE DefaultBaseUrl

toUpperCase(s) ==
  LET Upper == <<"A","B","C","D","E","F","G","H","I","J","K","L","M",
                 "N","O","P","Q","R","S","T","U","V","W","X","Y","Z">>
  IN  [i \in 1..Len(s) |->
         IF InSeq(s[i], Lower) THEN Upper[IndexIn(s[i], Lower)] ELSE s[i]]

\* bodySchema.parse(params) for post and put (bodySchema is z.any(): the
\* argument object itself), undefined otherwise: <<params>> or <<>>.
bodyParameters(method, params) == IF CarriesBody(method) THEN <<params>> ELSE <<>>

\* The body option of fetch: body ? JSON.stringify(body.body) : undefined.
fetchBody(body) ==
  IF body = <<>> THEN <<>> ELSE JsonStringify(Lookup(body[1], BodyName))

\* The call fetch receives.
Request(method, path, entries, body, env) ==
  [method |-> method,
   base |-> baseUrl(env),
   path |-> path,
   query |-> searchParams(entries, env),
   authorization |-> <<Lit("Bearer "), Chars(env.token)>>,
   contentType |-> "application/json",
   body |-> fetchBody(body)]

\* What the backend may answer: a status and a body text.
Response(status, body) == [status |-> status, body |-> body]

Responses ==
  {Response(200, EmptyObject), Response(200, <<" ">> \o OneArray),
   Response(200, <<"<">>), Response(204, <<>>),
   Response(404, EmptyObject), Response(500, <<"<">>)}

\* response.ok
Ok(response) == 200 <= response.status /\ response.status <= 299

TextResult(text) == [content |-> <<[type |-> "text", text |-> text]>>]

\* --------------------------------------------------------------- state

VARIABLES
  doc,              \* the document's path templates, in its key order
  env,              \* process.env
  phase,            \* start, compiling, generated, connected, aborted
  orderedPathKeys,  \* the sorted keys generateToolsFromOpenApi walks
  visit,            \* the number of loop rounds completed
  identifiers,      \* the (method, pathKey, name) of every round so far
  registry,         \* the server's registered tools
  generateRuns,     \* how often generateToolsFromOpenApi was entered
  inv               \* the invocation in progress or last completed

vars == <<doc, env, phase, orderedPathKeys, visit, identifiers, registry,
          generateRuns, inv>>

Idle ==
  [pc |-> "idle", tool |-> 0, args |-> <<>>, requests |-> <<>>,
   response |-> <<>>, results |-> <<>>, thrown |-> <<>>]

Init ==
  /\ doc \in Documents
  /\ env \in Environments
  /\ phase = "start"
  /\ orderedPathKeys = <<>>
  /\ visit = 0
  /\ identifiers = <<>>
  /\ registry = <<>>
  /\ generateRuns = 0
  /\ inv = Idle

\* ------------------------------------------------------- Operation Compiler

\* generateToolsFromOpenApi is entered: the keys are sorted.
GenerateBegin ==
  /\ phase = "start"
  /\ phase' = "compiling"
  /\ orderedPathKeys' = SortedKeys(doc)
  /\ generateRuns' = generateRuns + 1
  /\ UNCHANGED <<doc, env, visit, identifiers, registry, inv>>

Registered(name) == \E i \in 1..Len(registry) : registry[i].name = name

\* One round of the inner loop whose name is new to the server.
RegisterTool ==
  /\ phase = "compiling"
  /\ visit < Len(Visits(orderedPathKeys))
  /\ LET tool == ToolOf(Visits(orderedPathKeys)[visit + 1])
     IN  /\ ~Registered(tool.name)
         /\ identifiers' = Append(identifiers,
                                  <<tool.method, tool.pathKey, tool.name>>)
         /\ registry' = Append(registry, tool)
  /\ visit' = visit + 1
  /\ UNCHANGED <<doc, env, phase, orderedPathKeys, generateRuns, inv>>

\* One round whose name the server already holds.  server.tool is the MCP
\* SDK's, outside this repository: it either throws, which ends the process
\* before main runs, or replaces the earlier registration.
RegisterDuplicate ==
  /\ phase = "compiling"
  /\ visit < Len(Visits(orderedPathKeys))
  /\ LET tool == ToolOf(Visits(orderedPathKeys)[visit + 1])
     IN  /\ Registered(tool.name)
         /\ identifiers' = Append(identifiers,
                                  <<tool.method, tool.pathKey, tool.name>>)
         /\ \/ /\ phase' = "aborted"
               /\ UNCHANGED <<registry, visit>>
            \/ /\ registry' = [i \in 1..Len(registry) |->
                                 IF registry[i].name = tool.name
                                 THEN tool ELSE registry[i]]
               /\ visit' = visit + 1
               /\ UNCHANGED phase
  /\ UNCHANGED <<doc, env, orderedPathKeys, generateRuns, inv>>

\* The loops are over: generateToolsFromOpenApi returns.
GenerateEnd ==
  /\ phase = "compiling"
  /\ visit = Len(Visits(orderedPathKeys))
  /\ phase' = "generated"
  /\ UNCHANGED <<doc, env, orderedPathKeys, visit, identifiers, registry,
                 generateRuns, inv>>

\* main: server.connect(transport).
Connect ==
  /\ phase = "generated"
  /\ phase' = "connected"
  /\ UNCHANGED <<doc, env, orderedPathKeys, visit, identifiers, registry,
                 generateRuns, inv>>

\* ------------------------------------------------------------ tool handler

\* return {content: [{type: 'text', text: JSON.stringify(result, null, 2)}]}
handlerReturn(i, result) ==
  [i EXCEPT !.pc = "done",
            !.results = Append(@, TextResult(<<Chars(JsonPretty(result))>>))]

\* A catch block that lets the error go on to the host.
handlerRethrow(i, message) ==
  [i EXCEPT !.pc = "done", !.thrown = Append(@, message)]

\* catch (error): the message behind the "Error: " prefix.
handlerCatch(i, message) ==
  [i EXCEPT !.pc = "done",
            !.results = Append(@, TextResult(<<ErrorPrefix>> \o message))]

\* makeApiRequest without its check of the access token.
makeApiRequestUnchecked(i, method, path, params, body) ==
  IF ~IsAbsoluteUrl(baseUrl(env))
  THEN handlerCatch(i, <<Lit("Invalid URL")>>)
  ELSE [i EXCEPT !.pc = "fetch",
                 !.requests = Append(@, Request(method, path, params, body, env))]

\* makeApiRequest up to its first await: the two throws, or the fetch.
makeApiRequest(i, method, path, params, body) ==
  IF env.token = <<>>
  THEN handlerCatch(i, <<Lit("FREEE_ACCESS_TOKEN is not set")>>)
  ELSE IF ~IsAbsoluteUrl(baseUrl(env))
  THEN handlerCatch(i, <<Lit("Invalid URL")>>)
  ELSE [i EXCEPT !.pc = "fetch",
                 !.requests = Append(@, Request(method, path, params, body, env))]

\* The handler from its entry to the fetch it awaits.
handler(t, params) ==
  LET tool == registry[t]
      started == [Idle EXCEPT !.tool = t, !.args = params]
  IN  makeApiRequest(started,
                     toUpperCase(tool.method),
                     actualPath(tool.pathKey, tool.pathParams, params,
                                Len(tool.pathParams)),
                     queryParameters(tool.queryParams, params,
                                     Len(tool.queryParams)),
                     bodyParameters(tool.method, params))

\* The host calls a registered tool with arguments its schema accepts.
Invoke ==
  /\ phase = "connected"
  /\ inv.pc \in {"idle", "done"}
  /\ \E t \in 1..Len(registry) :
       \E params \in AcceptedArguments(registry[t].parameterSchema) :
         inv' = handler(t, params)
  /\ UNCHANGED <<doc, env, phase, orderedPathKeys, visit, identifiers,
                 registry, generateRuns>>

\* A failed fetch that is tried once more before the handler gives up.
FetchFailsRetry ==
  /\ inv.pc = "fetch"
  /\ inv' = IF Len(inv.requests) < 2
            THEN [inv EXCEPT !.requests = Append(@, @[1])]
            ELSE handlerCatch(inv, <<Lit("fetch failed")>>)
  /\ UNCHANGED <<doc, env, phase, orderedPathKeys, visit, identifiers,
                 registry, generateRuns>>

\* fetch rejects: the network failed.
FetchFails ==
  /\ inv.pc = "fetch"
  /\ inv' = handlerCatch(inv, <<Lit("fetch failed")>>)
  /\ UNCHANGED <<doc, env, phase, orderedPathKeys, visit, identifiers,
                 registry, generateRuns>>

\* fetch resolves with a response, whose body is read next.
FetchResponds ==
  /\ inv.pc = "fetch"
  /\ \E r \in Responses : inv' = [inv EXCEPT !.pc = "json", !.response = <<r>>]
  /\ UNCHANGED <<doc, env, phase, orderedPathKeys, visit, identifiers,
                 registry, generateRuns>>

\* makeApiRequest once response.json() has settled.
afterJson(i) ==
  LET response == i.response[1]
      parsed == JsonParse(response.body)
  IN  IF ~Ok(response)
      THEN LET errorData == IF parsed = <<>> THEN Json(EmptyObject) ELSE parsed[1]
           IN  handlerCatch(i, <<Lit("API request failed: "),
                                 Chars(ToDecimal(response.status)), Lit(" "),
                                 Chars(JsonStringify(errorData)[1])>>)
      ELSE IF parsed = <<>>
      THEN handlerCatch(i, <<Lit("Unexpected token in JSON")>>)
      ELSE handlerReturn(i, parsed[1])

JsonSettles ==
  /\ inv.pc = "json"
  /\ inv' = afterJson(inv)
  /\ UNCHANGED <<doc, env, phase, orderedPathKeys, visit, identifiers,
                 registry, generateRuns>>

Next ==
  \/ GenerateBegin
  \/ RegisterTool
  \/ RegisterDuplicate
  \/ GenerateEnd
  \/ Connect
  \/ Invoke
  \/ FetchFails
  \/ FetchResponds
  \/ JsonSettles

Spec == Init /\ [][Next]_vars

\* ================================================================ claims

\* The invocation, when one has completed, and what it produced.
Done == inv.pc = "done"

TheTool == registry[inv.tool]

TheResult == inv.results[1]

TheText == TheResult.content[1].text

Issued == inv.requests # <<>>

TheRequest == inv.requests[1]

\* The query entries of the request under a key.
QueryEntries(key) ==
  {i \in 1..Len(TheRequest.query) : TheRequest.query[i].key = key}

\* ---------------------------------------------------------------- C1
\* C1: the identifiers produced by compilation, method + "_" +
\* convertPathToToolName(path), are pairwise distinct over all the (method,
\* path) operations of the document.
C1_IdentifiersPairwiseDistinct ==
  \A i, j \in 1..Len(identifiers) :
    i # j => identifiers[i][3] # identifiers[j][3]

\* ---------------------------------------------------------------- C2
\* Whether the dispatch of the completed invocation failed: no token, no
\* request built, no response, a non-2xx status or a body that is no JSON.
DispatchFailed ==
  \/ env.token = <<>>
  \/ ~Issued
  \/ inv.response = <<>>
  \/ ~Ok(inv.response[1])
  \/ JsonParse(inv.response[1].body) = <<>>

WellFormed(result) ==
  /\ DOMAIN result = {"content"}
  /\ Len(result.content) = 1
  /\ DOMAIN result.content[1] = {"type", "text"}
  /\ result.content[1].type = "text"
  /\ Len(result.content[1].text) >= 1

\* C2: every invocation of a handler, whatever the arguments, configuration
\* and backend outcome, ends by returning exactly one well-formed text result
\* and never throws to the host; an invocation under way can always go on;
\* after a failed dispatch the text begins with "Error: ", after a successful
\* one it is a JSON text of the backend's response body.
C2_HandlerAlwaysReturnsOneResult ==
  /\ inv.thrown = <<>>
  /\ Len(inv.results) = (IF Done THEN 1 ELSE 0)
  /\ inv.pc = "fetch" => ENABLED (FetchFails \/ FetchResponds)
  /\ inv.pc = "json" => ENABLED JsonSettles
  /\ Done =>
       /\ WellFormed(TheResult)
       /\ DispatchFailed => Head(TheText) = ErrorPrefix
       /\ ~DispatchFailed =>
            /\ Len(TheText) = 1
            /\ TheText[1].lit = ""
            /\ JsonParse(TheText[1].chars) = JsonParse(inv.response[1].body)

\* A 2xx answer whose body is no JSON has been turned into an error result.
C2_Witness ==
  /\ Done
  /\ inv.response # <<>>
  /\ Ok(inv.response[1])
  /\ JsonParse(inv.response[1].body) = <<>>
  /\ Head(TheText) = ErrorPrefix

\* ---------------------------------------------------------------- C3
\* C3: with no access token configured no request is ever issued, and every
\* completed invocation returns the "Error: " result of the configuration
\* error, never a success.
C3_NoTokenNoDispatch ==
  env.token = <<>> =>
    /\ ~Issued
    /\ Done => TheText = <<ErrorPrefix, Lit("FREEE_ACCESS_TOKEN is not set")>>

C3_Witness ==
  /\ env.token = <<>>
  /\ Done
  /\ ~Issued
  /\ Head(TheText) = ErrorPrefix

\* ---------------------------------------------------------------- C4
\* C4 as claimed: every completed invocation has issued exactly one outbound
\* HTTP call.
C4_ExactlyOneCall == Done => Len(inv.requests) = 1

\* C4 amended: an invocation never issues more than one call, and a
\* completed one has issued exactly one when the access token is configured
\* and the base URL is absolute, and none otherwise.
C4_AtMostOneCall ==
  /\ Len(inv.requests) <= 1
  /\ Done =>
       (Len(inv.requests) = 1
          <=> (env.token # <<>> /\ IsAbsoluteUrl(baseUrl(env))))

\* A non-2xx answer has been turned into a result without a second call.
C4_Witness ==
  /\ Done
  /\ Len(inv.requests) = 1
  /\ inv.response # <<>>
  /\ ~Ok(inv.response[1])

\* ---------------------------------------------------------------- C5
Zero == <<"0">>

\* C5: every outbound request carries a company_id query value; when the
\* caller supplied none it is the only one and its value is the configured
\* company identifier, or 0 when none is configured.
C5_CompanyIdAlwaysSent ==
  Issued =>
    /\ QueryEntries(CompanyIdName) # {}
    /\ Lookup(inv.args, CompanyIdName) = Undefined =>
         \A i \in QueryEntries(CompanyIdName) :
           TheRequest.query[i].value =
             (IF env.company = <<>> THEN Zero ELSE env.company)

\* A request without a caller's or a configured company_id carries 0.
C5_Witness ==
  /\ Issued
  /\ env.company = <<>>
  /\ Lookup(inv.args, CompanyIdName) = Undefined
  /\ \E i \in QueryEntries(CompanyIdName) : TheRequest.query[i].value = Zero

\* ---------------------------------------------------------------- C6
\* C6: for every declared query parameter other than company_id, the
\* outbound query holds the parameter's key if and only if the caller
\* supplied a value under the key the input schema advertises, the sanitized
\* name.
C6_QueryKeyIffSupplied ==
  Issued =>
    \A k \in 1..Len(TheTool.queryParams) :
      LET name == TheTool.queryParams[k].name
      IN  name # CompanyIdName =>
            (QueryEntries(name) # {}
               <=> sanitizeParameterName(name) \in DOMAIN inv.args)

\* ---------------------------------------------------------------- C7
\* s with every occurrence of pattern replaced.
RECURSIVE ReplaceAll(_, _, _)
ReplaceAll(s, pattern, replacement) ==
  IF Contains(s, pattern)
  THEN ReplaceAll(ReplaceFirst(s, pattern, replacement), pattern, replacement)
  ELSE s

\* The template with every placeholder of the first n path parameters
\* replaced by the string of the argument supplied under the advertised key.
RECURSIVE Substituted(_, _, _, _)
Substituted(pathKey, pathParams, args, n) ==
  IF n = 0 THEN pathKey
  ELSE ReplaceAll(Substituted(pathKey, pathParams, args, n - 1),
                  Placeholder(pathParams[n].name),
                  String(Lookup(args, sanitizeParameterName(pathParams[n].name))))

UndefinedText == String(Undefined)

\* C7: the realized path is the template with every placeholder replaced by
\* the string of its argument; no placeholder remains and none became the
\* text "undefined".
C7_PathFullySubstituted ==
  Issued =>
    /\ TheRequest.path =
         Substituted(TheTool.pathKey, TheTool.pathParams, inv.args,
                     Len(TheTool.pathParams))
    /\ ~InSeq("{", TheRequest.path)
    /\ ~Contains(TheRequest.path, UndefinedText)

\* ---------------------------------------------------------------- C8
DeclaresCompanyId(tool) ==
  \E k \in 1..Len(tool.queryParams) : tool.queryParams[k].name = CompanyIdName

\* C8: the configured company_id is appended only if the tool declares a
\* company_id parameter and the caller supplied none; a caller's company_id
\* is the only company_id entry, and a tool that declares none gets none.
C8_CompanyIdOnlyWhenMissing ==
  Issued =>
    /\ Lookup(inv.args, CompanyIdName) # Undefined =>
         /\ Cardinality(QueryEntries(CompanyIdName)) = 1
         /\ \A i \in QueryEntries(CompanyIdName) :
              TheRequest.query[i].value = String(Lookup(inv.args, CompanyIdName))
    /\ ~DeclaresCompanyId(TheTool) => QueryEntries(CompanyIdName) = {}

\* ---------------------------------------------------------------- C9
HttpMethods ==
  {<<"G","E","T">>, <<"P","O","S","T">>, <<"P","U","T">>,
   <<"D","E","L","E","T","E">>}

\* C9: for every key of a Path Item the method of the tool and of its
\* requests is GET, POST, PUT or DELETE; a get or delete request carries no
\* body, and a body is only sent by a post or put tool with a declared JSON
\* body, as the JSON text of the body argument.
C9_FourMethodsBodyOnlyForPostPut ==
  /\ \A t \in 1..Len(registry) : toUpperCase(registry[t].method) \in HttpMethods
  /\ Issued =>
       /\ TheRequest.method \in HttpMethods
       /\ TheTool.method \in {Get, Delete} => TheRequest.body = <<>>
       /\ TheRequest.body # <<>> =>
            /\ TheTool.method \in {Post, Put}
            /\ TheTool.hasBody
            /\ TheRequest.body = JsonStringify(Lookup(inv.args, BodyName))

\* ---------------------------------------------------------------- C10
\* The (method, pathKey) operations of the document.
Operations ==
  UNION {{<<PathItemOf(doc[i])[k][1], doc[i]>> : k \in 1..Len(PathItemOf(doc[i]))} :
           i \in 1..Len(doc)}

CompiledInOrder ==
  \A i, j \in 1..Len(identifiers) :
    i < j => ~LexLess(identifiers[j][2], identifiers[i][2])

C10_State ==
  /\ generateRuns <= 1
  /\ CompiledInOrder
  /\ phase # "connected" => inv = Idle
  /\ phase = "connected" =>
       /\ generateRuns = 1
       /\ {<<identifiers[i][1], identifiers[i][2]>> : i \in 1..Len(identifiers)}
            = Operations
       /\ Len(identifiers) = Cardinality(Operations)

C10_Step ==
  /\ phase = "aborted" => phase' = "aborted"
  /\ phase = "connected" =>
       /\ phase' = "connected"
       /\ UNCHANGED <<registry, identifiers, generateRuns>>

\* C10: compilation runs once and to its end, over the path templates in
\* lexicographic order, before the server connects, so that no tool is
\* invoked before every operation has been handed to the server; once it
\* has failed the server never connects, and once the server is connected
\* nothing is compiled again.
C10_CompileBeforeConnect == [](C10_State) /\ [][C10_Step]_vars

\* A tool is invoked on a server that compiled two path templates.
C10_Witness ==
  /\ phase = "connected"
  /\ Len(doc) = 2
  /\ Len(registry) >= 3
  /\ Done

====
